---------------------------- MODULE Spec2Model ----------------------------
(***************************************************************************)
(* GitLabClient_v3 (jf_agent/git/gitlab_v3_client.py): the merge request   *)
(* enrichment (expand_merge_request_data), the commit materializer         *)
(* (get_mergerequest_commits), the event correlation (get_event) and the   *)
(* v3 -> v4 schema normalizer (add_v4_attrs).                               *)
(*                                                                         *)
(* Python values are records tagged with their class in the field cls, so  *)
(* that an attribute read on a value of the wrong class is an              *)
(* AttributeError or TypeError of the model as it is of the program.  An   *)
(* exception is a string in the field exc of a frame; "" is no exception.  *)
(***************************************************************************)
EXTENDS Integers, Sequences, FiniteSets, TLC

VARIABLES
    op,             \* the operation that ran last ("" before any)
    runs,           \* how many times add_v4_attrs ran on dataset
    dataset,        \* the merge request objects add_v4_attrs works on, in place
    events,         \* the project's event stream on the server
    refs,           \* what mergerequest.get_commits() answers
    repo,           \* the ids project.find_commit() resolves
    merge_request,  \* the object expand_merge_request_data works on, in place
    projects,       \* find_project's outcome per project id
    notes,          \* the outcome of merge_request.notes()
    ret,            \* the last operation's return value
    exc,            \* the exception that escaped the last operation, "" if none
    calls,          \* the collaborator calls the last operation issued, in order
    mrg_evnt,       \* what get_event returned last, per dataset entry reached
    reached         \* the dataset entries the last add_v4_attrs loop entered

vars == <<op, runs, dataset, events, refs, repo, merge_request, projects,
          notes, ret, exc, calls, mrg_evnt, reached>>

(***************************** bounds **************************************)
MaxEvents == 2
MaxRefs == 2
MaxMRs == 2
MaxRuns == 2
MaxCommitRefs == 3

(***************************** Python values *******************************)
NoneV == [cls |-> "NoneType"]
\* an attribute that was never assigned: reading it is an AttributeError
Unset == [cls |-> "unset"]
Str(s) == [cls |-> "str", v |-> s]
List(items) == [cls |-> "list", v |-> items]
DateTime(y, mo, d, h, mi, s) == [cls |-> "datetime", v |-> <<y, mo, d, h, mi, s>>]
\* a text made of chunks, "\n" being the line break
Text(chunks) == [cls |-> "str", text |-> chunks]

\* Python truth value of x (bool(x))
Truthy(x) ==
    CASE x.cls = "NoneType" -> FALSE
      [] x.cls = "list" -> Len(x.v) > 0
      [] x.cls = "str" -> IF "v" \in DOMAIN x THEN x.v # "" ELSE x.text # <<>>
      [] OTHER -> TRUE

Pad2(n) == IF n < 10 THEN "0" \o ToString(n) ELSE ToString(n)

\* datetime.isoformat() of a naive datetime without microseconds
isoformat(dt) ==
    Str(ToString(dt.v[1]) \o "-" \o Pad2(dt.v[2]) \o "-" \o Pad2(dt.v[3]) \o "T"
        \o Pad2(dt.v[4]) \o ":" \o Pad2(dt.v[5]) \o ":" \o Pad2(dt.v[6]))

\* str.splitlines() on the chunks of a text: the lines without their breaks,
\* no last empty line after a closing break
RECURSIVE SplitFrom(_, _, _, _)
SplitFrom(chunks, i, cur, open) ==
    IF i > Len(chunks)
    THEN IF open THEN <<cur>> ELSE <<>>
    ELSE IF chunks[i] = "\n"
         THEN <<cur>> \o SplitFrom(chunks, i + 1, "", FALSE)
         ELSE SplitFrom(chunks, i + 1, cur \o chunks[i], TRUE)

splitlines(t) == SplitFrom(t.text, 1, "", FALSE)


(***************************** the collaborator ****************************)
ProjectIds == {1, 2}
Shas == <<"s1", "s2">>
CommitIds == {"a", "b", "c"}
LookupOutcomes == {"ok", "GitLabException404", "GitLabException500", "RetryError"}

\* the n-th event of a stream: a push carrying sha, a push without data, or
\* another action carrying sha; the n-th actor at the n-th instant
Event(kind, sha, n) ==
    [cls |-> "Event",
     action_name |-> IF kind = "other" THEN "commented on" ELSE "pushed to",
     data |-> IF kind = "nodata" THEN NoneV
              ELSE [cls |-> "dict", checkout_sha |-> Str(sha)],
     created_at |-> DateTime(2020, 2, n, 8, 30, n),
     author |-> [name |-> "user" \o ToString(n)]]

EventShapes == {<<"push", Shas[1]>>, <<"push", Shas[2]>>, <<"nodata", Shas[1]>>,
                <<"other", Shas[1]>>}

EventStreams ==
    UNION {{[n \in 1..len |-> Event(shape[n][1], shape[n][2], n)] :
              shape \in [1..len -> EventShapes]} : len \in 0..MaxEvents}

\* the commit references of a merge request: id-only mappings
CommitRef(id) == [cls |-> "dict", id |-> id]

RefLists(max) ==
    UNION {{[n \in 1..len |-> CommitRef(ids[n])] : ids \in [1..len -> CommitIds]} :
              len \in 0..max}

\* commit.diff(): one mapping per changed file, its patch text under 'diff'
CommitDiff(id) ==
    CASE id = "a" -> <<[cls |-> "dict", diff |-> Text(<<"+x", "\n", "-y", "\n">>)],
                       [cls |-> "dict", diff |-> Text(<<"@@", "\n", "\n", "+", "z">>)]>>
      [] id = "b" -> <<[cls |-> "dict", diff |-> Text(<<"+w">>)]>>
      [] OTHER -> <<>>

\* how many find_project calls a call log holds
RECURSIVE Count(_, _)
Count(log, name) ==
    IF log = <<>> THEN 0
    ELSE (IF Head(log) = name THEN 1 ELSE 0) + Count(Tail(log), name)

\* client.find_project(id=...): a new Project object, or the lookup's error
find_project(id, seen) ==
    IF projects[id] = "ok"
    THEN [ret |-> [cls |-> "Project", id |-> id, ref |-> Count(seen, "find_project") + 1],
          exc |-> "", calls |-> seen \o <<"find_project">>]
    ELSE [ret |-> NoneV, exc |-> projects[id], calls |-> seen \o <<"find_project">>]

get_project(project_id, seen) == find_project(project_id, seen)

\* proj.find_event(action_name=..., find_all=True): every event of that action
find_event(stream, action_name) ==
    SelectSeq(stream, LAMBDA e : e.action_name = action_name)

\* project.find_commit(id=...): the Commit, or None
find_commit(id) == IF id \in repo THEN [cls |-> "Commit", id |-> id] ELSE NoneV

(***************************** get_event **********************************)
\* the loop of lines 116-119 from position i: the index of the event
\* returned, 0 when the loop ends without returning
\* ScanEvents with the loop running on after a match: the last match wins
RECURSIVE ScanEventsLast(_, _, _)
ScanEventsLast(evs, checkout_sha, i) ==
    IF i > Len(evs) THEN 0
    ELSE LET later == ScanEventsLast(evs, checkout_sha, i + 1)
         IN  IF later > 0 THEN later
             ELSE IF /\ Truthy(evs[i].data)
                     /\ evs[i].action_name = "pushed to"
                     /\ evs[i].data.checkout_sha = checkout_sha
                  THEN i
                  ELSE 0

RECURSIVE ScanEvents(_, _, _)
ScanEvents(evs, checkout_sha, i) ==
    IF i > Len(evs) THEN 0
    ELSE IF /\ Truthy(evs[i].data)
            /\ evs[i].action_name = "pushed to"
            /\ evs[i].data.checkout_sha = checkout_sha
         THEN i
         ELSE ScanEvents(evs, checkout_sha, i + 1)

\* get_event answering None, not the event list, when no event matches
get_event_or_none(checkout_sha, project_id, action_name, seen) ==
    LET proj == get_project(project_id, seen)
        evs == find_event(events, action_name)
        log == proj.calls \o <<"find_event">>
        k == IF checkout_sha.cls # "NoneType" THEN ScanEvents(evs, checkout_sha, 1) ELSE 0
    IN  IF proj.exc # "" THEN proj
        ELSE IF k > 0 THEN [ret |-> evs[k], exc |-> "", calls |-> log]
        ELSE [ret |-> NoneV, exc |-> "", calls |-> log]

get_event(checkout_sha, project_id, action_name, seen) ==
    LET proj == get_project(project_id, seen)
        evs == find_event(events, action_name)
        log == proj.calls \o <<"find_event">>
        k == IF checkout_sha.cls # "NoneType" THEN ScanEvents(evs, checkout_sha, 1) ELSE 0
    IN  IF proj.exc # "" THEN proj
        ELSE IF k > 0 THEN [ret |-> evs[k], exc |-> "", calls |-> log]
        ELSE [ret |-> List(evs), exc |-> "", calls |-> log]

(***************************** get_mergerequest_commits ********************)
\* the loop of lines 176-179 from position i: a resolved reference is
\* replaced in place by its Commit
RECURSIVE ResolveFrom(_, _)
ResolveFrom(commits, i) ==
    IF i > Len(commits) THEN commits
    ELSE LET commit == find_commit(commits[i].id)
         IN  ResolveFrom(IF Truthy(commit) THEN [commits EXCEPT ![i] = commit]
                         ELSE commits, i + 1)

\* line 180 left out: nothing is dropped
KeepDicts(commits) == commits

\* line 180
DropDicts(commits) == SelectSeq(commits, LAMBDA c : c.cls # "dict")

get_mergerequest_commits(mergerequest, project, seen) ==
    LET proj == IF project.cls = "NoneType"
                THEN IF mergerequest.cls = "MergeRequest"
                     THEN find_project(mergerequest.project_id, seen)
                     ELSE [ret |-> NoneV, exc |-> "AttributeError", calls |-> seen]
                ELSE [ret |-> project, exc |-> "", calls |-> seen]
    IN  IF proj.exc # "" THEN proj
        ELSE IF mergerequest.cls # "MergeRequest"
        THEN \* no get_commits attribute on any other object
             [ret |-> NoneV, exc |-> "AttributeError", calls |-> proj.calls]
        ELSE LET commits == refs
                 log == proj.calls \o <<"get_commits">>
             IN  IF Truthy(commits)
                 THEN [ret |-> List(DropDicts(ResolveFrom(commits.v, 1))), exc |-> "",
                       calls |-> log \o [n \in 1..Len(commits.v) |-> "find_commit"]]
                 ELSE [ret |-> commits, exc |-> "", calls |-> log]

(***************************** add_v4_attrs *******************************)
\* The loop body works on a frame: e the entry, exc the exception raised so
\* far, calls the collaborator calls so far, ev what get_event returned,
\* commits what get_mergerequest_commits returned.  A statement does nothing
\* once an exception is raised.

\* lines 187-192
CorrelateEvent(f) ==
    LET r == get_event(f.e.sha, f.e.project_id, "pushed to", f.calls)
    IN  [f EXCEPT !.ev = r.ret, !.exc = r.exc, !.calls = r.calls]

\* line 193: mrg_date = mrg_evnt.created_at
ReadMergeDate(f) ==
    IF f.exc # "" THEN f
    ELSE IF f.ev.cls = "Event" THEN f
    ELSE [f EXCEPT !.exc = "AttributeError"]

\* line 194
MaterializeCommits(f, project) ==
    IF f.exc # "" THEN f
    ELSE LET r == get_mergerequest_commits(f.e, project, f.calls)
         IN  [f EXCEPT !.commits = r.ret, !.exc = r.exc, !.calls = r.calls]

\* lines 195-196 with line 195 naming 'base_branch' for 'merge_date'
SetMergeMetadataWrongName(f) ==
    IF f.exc # "" THEN f
    ELSE [f EXCEPT !.e.base_branch = isoformat(f.ev.created_at),
                   !.e.approved_by = Str(f.ev.author.name)]

\* lines 195-196
SetMergeMetadata(f) ==
    IF f.exc # "" THEN f
    ELSE [f EXCEPT !.e.merge_date = isoformat(f.ev.created_at),
                   !.e.approved_by = Str(f.ev.author.name)]

\* line 197 or 198: entry.<attr> = entry.<attr>.isoformat()
IsoAttr(f, attr) ==
    IF f.exc # "" THEN f
    ELSE IF f.e[attr].cls = "datetime"
    THEN [f EXCEPT !.e[attr] = isoformat(f.e[attr])]
    ELSE [f EXCEPT !.exc = "AttributeError"]

\* lines 197-199, in the order of the code
SetTimestamps(f) ==
    LET f1 == IsoAttr(f, "created_at")
        f2 == IsoAttr(f1, "updated_at")
    IN  IF f2.exc # "" THEN f2
        ELSE [f2 EXCEPT !.e.updated_at_dt = f2.e.updated_at]

\* line 200
SetClosedAt(f) ==
    IF f.exc # "" THEN f
    ELSE [f EXCEPT !.e.closed_at = isoformat(f.ev.created_at)]

\* lines 201-202
RenameBranches(f) ==
    IF f.exc # "" THEN f
    ELSE [f EXCEPT !.e.base_branch = f.e.target_branch,
                   !.e.head_branch = f.e.source_branch]

\* lines 204-206 with diffs = commit.diff() for diffs.extend(commit.diff()):
\* the last commit's diff alone is left
ExtendDiffsAssign(commits, i) ==
    IF i > Len(commits) THEN <<>> ELSE CommitDiff(commits[Len(commits)].id)

\* lines 204-206: diffs.extend(commit.diff()) for each commit, from position i
RECURSIVE ExtendDiffs(_, _)
ExtendDiffs(commits, i) ==
    IF i > Len(commits) THEN <<>>
    ELSE CommitDiff(commits[i].id) \o ExtendDiffs(commits, i + 1)

\* lines 203-211
SetDiff(f) ==
    IF f.exc # "" THEN f
    ELSE IF Truthy(f.commits)
    THEN LET diffs == ExtendDiffs(f.commits.v, 1)
             lines == IF Len(diffs) > 0
                      THEN [n \in 1..Len(diffs) |-> splitlines(diffs[n].diff)]
                      ELSE diffs
         IN  [f EXCEPT !.e.diff = List(lines),
                       !.calls = @ \o [n \in 1..Len(f.commits.v) |-> "commit.diff"]]
    ELSE [f EXCEPT !.e.diff = NoneV]

\* lines 187-212: the loop body on one entry
NormalizeEntry(entry, project, seen) ==
    LET f0 == [e |-> entry, exc |-> "", calls |-> seen, ev |-> NoneV, commits |-> NoneV]
    IN  SetDiff(RenameBranches(SetClosedAt(SetTimestamps(SetMergeMetadata(
            MaterializeCommits(ReadMergeDate(CorrelateEvent(f0)), project))))))

\* lines 186-212: the loop from entry i; it ends at the first exception
RECURSIVE NormalizeFrom(_, _, _)
NormalizeFrom(acc, project, i) ==
    IF i > Len(acc.ds) \/ acc.exc # "" THEN acc
    ELSE LET f == NormalizeEntry(acc.ds[i], project, acc.calls)
         IN  NormalizeFrom([ds |-> [acc.ds EXCEPT ![i] = f.e], exc |-> f.exc,
                            calls |-> f.calls, evs |-> Append(acc.evs, f.ev),
                            reached |-> i], project, i + 1)

add_v4_attrs(type, ds, project) ==
    IF type = "mergerequest"
    THEN NormalizeFrom([ds |-> ds, exc |-> "", calls |-> <<>>, evs |-> <<>>,
                        reached |-> 0], project, 1)
    ELSE [ds |-> ds, exc |-> "", calls |-> <<>>, evs |-> <<>>, reached |-> 0]

(***************************** the merge requests **************************)
\* a v3 merge request of project 1 as project.merge_requests() lists it
RawCreatedAt(i) == DateTime(2019, 11, i, 9, 5, 0)
RawUpdatedAt(i) == DateTime(2019, 12, 10 + i, 17, 30, 45)

RawMergeRequest(i) ==
    [cls |-> "MergeRequest", id |-> i, project_id |-> 1,
     sha |-> Str(Shas[((i - 1) % Len(Shas)) + 1]),
     target_branch |-> Str("main"), source_branch |-> Str("feature-" \o ToString(i)),
     created_at |-> RawCreatedAt(i), updated_at |-> RawUpdatedAt(i),
     merge_date |-> Unset, approved_by |-> Unset, updated_at_dt |-> Unset,
     closed_at |-> Unset, base_branch |-> Unset, head_branch |-> Unset,
     diff |-> Unset]

TheProject == [cls |-> "Project", id |-> 1, ref |-> 0]

(***************************** Spec: the normalizer ***********************)
Init ==
    /\ op = ""
    /\ runs = 0
    /\ dataset = [i \in 1..MaxMRs |-> RawMergeRequest(i)]
    /\ events \in EventStreams
    /\ refs \in {NoneV} \cup {List(l) : l \in RefLists(MaxRefs)}
    /\ repo \in SUBSET CommitIds
    /\ merge_request = NoneV
    /\ projects = [id \in ProjectIds |-> "ok"]
    /\ notes = NoneV
    /\ ret = NoneV
    /\ exc = ""
    /\ calls = <<>>
    /\ mrg_evnt = <<>>
    /\ reached = 0

\* list_project_merge_requests hands the listed merge requests to
\* add_v4_attrs, which rewrites them in place
AddV4Attrs ==
    /\ runs < MaxRuns
    /\ LET r == add_v4_attrs("mergerequest", dataset, TheProject)
       IN  /\ dataset' = r.ds
           /\ exc' = r.exc
           /\ calls' = r.calls
           /\ mrg_evnt' = r.evs
           /\ reached' = r.reached
           /\ ret' = IF r.exc = "" THEN List(r.ds) ELSE NoneV
    /\ op' = "add_v4_attrs"
    /\ runs' = runs + 1
    /\ UNCHANGED <<events, refs, repo, merge_request, projects, notes>>

Next == AddV4Attrs

Spec == Init /\ [][Next]_vars

(***************************** SpecCommits: the materializer **************)
InitCommits ==
    /\ op = ""
    /\ runs = 0
    /\ dataset = <<RawMergeRequest(1)>>
    /\ events = <<>>
    /\ refs \in {NoneV} \cup {List(l) : l \in RefLists(MaxCommitRefs)}
    /\ repo \in SUBSET CommitIds
    /\ merge_request = NoneV
    /\ projects \in [ProjectIds -> LookupOutcomes]
    /\ projects[2] = "ok"
    /\ notes = NoneV
    /\ ret = NoneV
    /\ exc = ""
    /\ calls = <<>>
    /\ mrg_evnt = <<>>
    /\ reached = 0

\* a caller asks for the commits of the merge request, with the project at
\* hand or without
GetMergeRequestCommits ==
    /\ op = ""
    /\ \E project \in {NoneV, TheProject} :
          LET r == get_mergerequest_commits(dataset[1], project, <<>>)
          IN  /\ ret' = r.ret
              /\ exc' = r.exc
              /\ calls' = r.calls
    /\ op' = "get_mergerequest_commits"
    /\ UNCHANGED <<runs, dataset, events, refs, repo, merge_request, projects, notes,
                   mrg_evnt, reached>>

NextCommits == GetMergeRequestCommits

SpecCommits == InitCommits /\ [][NextCommits]_vars

(***************************** expand_merge_request_data ******************)
\* The statements work on a frame: mr the merge request, exc the exception
\* raised so far, calls the collaborator calls so far.

\* the client object itself, which line 105 passes as the merge request
Client == [cls |-> "GitLabClient_v3"]

\* lines 68-69
ResolveTarget(f) ==
    LET r == get_project(f.mr.target_project_id, f.calls)
    IN  IF r.exc # "" THEN [f EXCEPT !.exc = r.exc, !.calls = r.calls]
        ELSE [f EXCEPT !.mr.target_project = r.ret, !.calls = r.calls]

\* lines 74-82 with the not-found answer handled as no source project
ResolveSourceSwallow404(f) ==
    IF f.exc # "" THEN f
    ELSE IF f.mr.target_project.id # f.mr.source_project_id
    THEN LET r == get_project(f.mr.source_project_id, f.calls)
         IN  IF r.exc = "" THEN [f EXCEPT !.mr.source_project = r.ret, !.calls = r.calls]
             ELSE IF r.exc = "GitLabException404"
             THEN [f EXCEPT !.mr.source_project = NoneV, !.calls = r.calls]
             ELSE [f EXCEPT !.exc = r.exc, !.calls = r.calls]
    ELSE [f EXCEPT !.mr.source_project = f.mr.target_project]

\* lines 74-82 with the source project looked up in either case
ResolveSourceAlwaysFetch(f) ==
    IF f.exc # "" THEN f
    ELSE LET r == get_project(f.mr.source_project_id, f.calls)
         IN  IF r.exc = "" THEN [f EXCEPT !.mr.source_project = r.ret, !.calls = r.calls]
             ELSE IF r.exc = "GitLabException404"
             THEN [f EXCEPT !.exc = "MissingSourceProjectException", !.calls = r.calls]
             ELSE [f EXCEPT !.exc = r.exc, !.calls = r.calls]

\* lines 74-82
ResolveSource(f) ==
    IF f.exc # "" THEN f
    ELSE IF f.mr.target_project.id # f.mr.source_project_id
    THEN LET r == get_project(f.mr.source_project_id, f.calls)
         IN  IF r.exc = "" THEN [f EXCEPT !.mr.source_project = r.ret, !.calls = r.calls]
             ELSE IF r.exc = "GitLabException404"
             THEN [f EXCEPT !.exc = "MissingSourceProjectException", !.calls = r.calls]
             ELSE [f EXCEPT !.exc = r.exc, !.calls = r.calls]
    ELSE [f EXCEPT !.mr.source_project = f.mr.target_project]

\* lines 84-92
FetchNotes(f) ==
    IF f.exc # "" THEN f
    ELSE IF notes.outcome = "ok"
    THEN [f EXCEPT !.mr.note_list = notes.value, !.calls = @ \o <<"notes">>]
    ELSE \* RetryError or GitLabException: logged, handled as no notes
         [f EXCEPT !.mr.note = List(<<>>), !.calls = @ \o <<"notes">>]

\* lines 55-56: the lines of all the lists, one after the other, joined by "\n"
RECURSIVE Flatten(_)
Flatten(lists) == IF lists = <<>> THEN <<>> ELSE Head(lists) \o Flatten(Tail(lists))

RECURSIVE Join(_)
Join(strs) ==
    IF strs = <<>> THEN <<>>
    ELSE IF Len(strs) = 1 THEN <<strs[1]>>
    ELSE <<strs[1], "\n">> \o Join(Tail(strs))

_get_diff_string(diffs) == Text(Join(Flatten(diffs)))

\* lines 94-102: merge_request.diff is read, and may be fetched on reading
FetchDiff(f) ==
    IF f.exc # "" THEN f
    ELSE LET d == f.mr.diff
             log == f.calls \o <<"diff">>
         IN  CASE d.cls = "unset" -> [f EXCEPT !.exc = "AttributeError", !.calls = log]
               [] d.cls = "NoneType" -> [f EXCEPT !.exc = "TypeError", !.calls = log]
               [] d.cls = "raises" -> [f EXCEPT !.mr.diff = Text(<<>>), !.calls = log]
               [] OTHER -> [f EXCEPT !.mr.diff = _get_diff_string(d.v), !.calls = log]

\* line 105: self.get_mergerequest_commits(self, merge_request) binds the
\* client to mergerequest and the merge request to project
FetchCommitList(f) ==
    IF f.exc # "" THEN f
    ELSE LET r == get_mergerequest_commits(Client, f.mr, f.calls)
         IN  IF r.exc # "" THEN [f EXCEPT !.exc = r.exc, !.calls = r.calls]
             ELSE [f EXCEPT !.mr.commit_list = r.ret, !.calls = r.calls]

expand_merge_request_data(mr) ==
    FetchCommitList(FetchDiff(FetchNotes(ResolveSource(ResolveTarget(
        [mr |-> mr, exc |-> "", calls |-> <<>>])))))

(***************************** SpecExpand: the enrichment *****************)
\* a listed merge request before enrichment
ListedMergeRequest(target, source, diff) ==
    [cls |-> "MergeRequest", id |-> 7, project_id |-> target,
     target_project_id |-> target, source_project_id |-> source,
     target_project |-> Unset, source_project |-> Unset,
     note_list |-> Unset, note |-> Unset, diff |-> diff,
     approved_by |-> Unset, commit_list |-> Unset]

\* what merge_request.diff holds before enrichment: nothing, None (no commits
\* materialized by add_v4_attrs), lists of lines, or a fetch that fails
DiffInputs ==
    {Unset, NoneV, List(<<>>), List(<<<<"+x", "-y">>, <<>>, <<"+z">>>>),
     [cls |-> "raises", exc |-> "RetryError"],
     [cls |-> "raises", exc |-> "GitLabException500"]}

Note(n) == [cls |-> "Note", id |-> n, body |-> "note " \o ToString(n)]

NotesOutcomes ==
    {[outcome |-> "ok", value |-> List(<<>>)],
     [outcome |-> "ok", value |-> List(<<Note(1), Note(2)>>)],
     [outcome |-> "RetryError", value |-> NoneV],
     [outcome |-> "GitLabException500", value |-> NoneV]}

InitExpand ==
    /\ op = ""
    /\ runs = 0
    /\ dataset = <<>>
    /\ events = <<>>
    /\ refs = List(<<CommitRef("a"), CommitRef("c")>>)
    /\ repo = {"a", "b"}
    /\ \E target \in ProjectIds, source \in ProjectIds, diff \in DiffInputs :
          merge_request = ListedMergeRequest(target, source, diff)
    /\ projects \in [ProjectIds -> LookupOutcomes]
    /\ notes \in NotesOutcomes
    /\ ret = NoneV
    /\ exc = ""
    /\ calls = <<>>
    /\ mrg_evnt = <<>>
    /\ reached = 0

\* the harness enriches the merge request, once
Expand ==
    /\ op = ""
    /\ LET f == expand_merge_request_data(merge_request)
       IN  /\ merge_request' = f.mr
           /\ exc' = f.exc
           /\ calls' = f.calls
           /\ ret' = IF f.exc = "" THEN f.mr ELSE NoneV
    /\ op' = "expand_merge_request_data"
    /\ UNCHANGED <<runs, dataset, events, refs, repo, projects, notes, mrg_evnt, reached>>

NextExpand == Expand

SpecExpand == InitExpand /\ [][NextExpand]_vars

(***************************** the claims *********************************)
Expanded == op = "expand_merge_request_data"
Normalized == op = "add_v4_attrs"

\* the projects of the merge request were resolved
ProjectsResolved ==
    /\ Expanded
    /\ merge_request.target_project.cls = "Project"
    /\ merge_request.source_project.cls = "Project"

NotesFailed == notes.outcome # "ok"

\* C1: if the notes fetch fails during expand_merge_request_data, no
\* exception escapes the enrichment and the returned record has note_list
\* equal to the empty sequence.
C1_NotesFailureGivesEmptyNoteList ==
    (ProjectsResolved /\ NotesFailed /\ merge_request.diff.cls \in {"str", "list"})
        => /\ exc = ""
           /\ ret.cls = "MergeRequest"
           /\ ret.note_list.cls = "list"
           /\ ret.note_list.v = <<>>

C3_MissingSourceProjectRaisesBeforeSubFetches ==
    (/\ Expanded
     /\ merge_request.source_project_id # merge_request.target_project_id
     /\ projects[merge_request.target_project_id] = "ok"
     /\ projects[merge_request.source_project_id] = "GitLabException404")
        => /\ exc = "MissingSourceProjectException"
           /\ ret = NoneV
           /\ calls = <<"find_project", "find_project">>

C3_Witness ==
    /\ Expanded
    /\ merge_request.target_project_id = 1
    /\ merge_request.source_project_id = 2
    /\ projects[1] = "ok"
    /\ projects[2] = "GitLabException404"
    /\ exc = "MissingSourceProjectException"

\* C4: when target_project_id equals source_project_id, source_project is
\* the very Project object target_project is, and one project lookup was
\* issued.
C4_SameProjectIsAliased ==
    (/\ Expanded
     /\ merge_request.source_project_id = merge_request.target_project_id
     /\ projects[merge_request.target_project_id] = "ok")
        => /\ merge_request.target_project.cls = "Project"
           /\ merge_request.source_project = merge_request.target_project
           /\ Count(calls, "find_project") = 1

C4_Witness ==
    /\ Expanded
    /\ merge_request.source_project_id = merge_request.target_project_id
    /\ merge_request.source_project.cls = "Project"
    /\ merge_request.source_project.ref = 1
    /\ Len(calls) > 1

\* the Commits of the references the project resolves, in the references' order
ResolvedCommits ==
    IF refs.cls = "list"
    THEN LET kept == SelectSeq(refs.v, LAMBDA r : r.id \in repo)
         IN  [n \in 1..Len(kept) |-> [cls |-> "Commit", id |-> kept[n].id]]
    ELSE <<>>

\* C5: for a non-empty list of commit references, get_mergerequest_commits
\* returns the Commits of the references find_commit resolves, in the order
\* of the references, and no reference mapping.
C5_OnlyResolvedCommitsInOrder ==
    (op = "get_mergerequest_commits" /\ exc = "" /\ Truthy(refs))
        => /\ ret.cls = "list"
           /\ ret.v = ResolvedCommits
           /\ \A n \in 1..Len(ret.v) : ret.v[n].cls = "Commit"

C5_Witness ==
    /\ op = "get_mergerequest_commits"
    /\ exc = ""
    /\ refs = List(<<CommitRef("a"), CommitRef("c"), CommitRef("b")>>)
    /\ repo = {"a", "b"}
    /\ Len(ret.v) = 2

\* the entries whose loop body ran to its end at some run
Done(i) == dataset[i].diff.cls # "unset"

\* C6: after add_v4_attrs, created_at and updated_at are ISO-8601 text and
\* updated_at_dt is the raw timestamp updated_at held before.
C6_RawUpdatedAtIsKept ==
    \A i \in 1..Len(dataset) :
        (Normalized /\ Done(i))
            => /\ dataset[i].created_at.cls = "str"
               /\ dataset[i].updated_at.cls = "str"
               /\ dataset[i].updated_at_dt.cls = "datetime"
               /\ dataset[i].updated_at_dt = RawUpdatedAt(i)

\* the positions in the stream of the pushes that carry the sha of entry i
Matching(i) ==
    {k \in 1..Len(events) :
        /\ events[k].action_name = "pushed to"
        /\ events[k].data.cls = "dict"
        /\ events[k].data.checkout_sha = dataset[i].sha}

FirstMatching(i) == CHOOSE k \in Matching(i) : \A j \in Matching(i) : k <= j

\* C7: when the stream holds pushes whose checkout_sha is the merge
\* request's sha, merge_date and closed_at are both the timestamp of the
\* first of them in stream order, and approved_by is its author.
C7_FirstMatchingEventDecides ==
    \A i \in 1..Len(dataset) :
        (Normalized /\ i <= reached /\ Matching(i) # {})
            => /\ dataset[i].merge_date = isoformat(events[FirstMatching(i)].created_at)
               /\ dataset[i].closed_at = dataset[i].merge_date
               /\ dataset[i].approved_by = Str(events[FirstMatching(i)].author.name)

C7_Witness ==
    /\ Normalized
    /\ runs = 1
    /\ Done(1)
    /\ Cardinality(Matching(1)) > 1
    /\ dataset[1].approved_by = Str("user1")

\* the diff lines add_v4_attrs is to derive from commits: for each commit in
\* order, for each of its files in order, the lines of the file's patch
RECURSIVE LinesPerFile(_)
LinesPerFile(commits) ==
    IF commits = <<>> THEN <<>>
    ELSE LET files == CommitDiff(Head(commits).id)
         IN  [n \in 1..Len(files) |-> splitlines(files[n].diff)]
                 \o LinesPerFile(Tail(commits))

RECURSIVE FileCount(_)
FileCount(commits) ==
    IF commits = <<>> THEN 0
    ELSE Len(CommitDiff(Head(commits).id)) + FileCount(Tail(commits))

\* C8 as claimed: diff is null if no commit was materialized, and else a
\* sequence of as many diff-lines lists as there are materialized commits.
C8_OneListPerCommit ==
    \A i \in 1..Len(dataset) :
        (Normalized /\ Done(i))
            => IF ResolvedCommits = <<>>
               THEN dataset[i].diff = NoneV
               ELSE /\ dataset[i].diff.cls = "list"
                    /\ Len(dataset[i].diff.v) = Len(ResolvedCommits)

\* C8 as amended: diff is null if no commit was materialized, and else a
\* sequence of one diff-lines list per changed file of the materialized
\* commits, in commit order and within a commit in file order.
C8_OneListPerFile ==
    \A i \in 1..Len(dataset) :
        (Normalized /\ Done(i))
            => IF ResolvedCommits = <<>>
               THEN dataset[i].diff = NoneV
               ELSE /\ dataset[i].diff.cls = "list"
                    /\ Len(dataset[i].diff.v) = FileCount(ResolvedCommits)
                    /\ dataset[i].diff.v = LinesPerFile(ResolvedCommits)

C8_Witness ==
    /\ Normalized
    /\ Done(1)
    /\ Len(ResolvedCommits) = 2
    /\ dataset[1].diff.cls = "list"
    /\ Len(dataset[1].diff.v) = 3

C10_NoMatchFailsBeforeAnyField ==
    \A i \in 1..Len(dataset) :
        (Normalized /\ i = reached /\ Matching(i) = {})
            => /\ mrg_evnt[i] = List(SelectSeq(events, LAMBDA e : e.action_name = "pushed to"))
               /\ exc = "AttributeError"
               /\ \A a \in {"merge_date", "approved_by", "base_branch", "head_branch",
                            "diff", "closed_at", "updated_at_dt"} :
                      dataset[i][a].cls = "unset"
               /\ dataset[i].created_at = RawCreatedAt(i)

C10_Witness ==
    /\ Normalized
    /\ reached = 2
    /\ Matching(2) = {}
    /\ Len(mrg_evnt[2].v) > 0
    /\ Done(1)
    /\ exc = "AttributeError"

=============================================================================
